---- MODULE Spec2Model ----
(***************************************************************************)
(* Model of video-rs' Encoder (src/src/encode.rs): the lifecycle of one    *)
(* encoding pipeline (lazy header, frame submission, single drain per      *)
(* call, bounded flush, trailer, drop), with the ffmpeg codec and the      *)
(* container writer as its environment.                                    *)
(*                                                                         *)
(* The codec and the writer are external libraries.  Every call into them  *)
(* is recorded in `ops` (the calls of the most recent Encoder method) and  *)
(* every successful container write in `muxLog`.  A call may fail: the     *)
(* environment chooses, within a budget of MaxFaults injected failures.    *)
(* The codec's drain answers are chosen by the environment as well:        *)
(*   - before end-of-stream it may hold packets back (lag): a drain        *)
(*     answers a packet only if a submitted frame is still buffered, or    *)
(*     EAGAIN as long as it holds back at most MaxLag frames;              *)
(*   - after end-of-stream a "conforming" codec answers one packet per     *)
(*     buffered frame and then EOF; a "stalling" codec answers EAGAIN for  *)
(*     ever and an "endless" codec answers packets for ever (the two       *)
(*     codecs that never report being drained);                            *)
(*   - after end-of-stream send_frame is refused (avcodec_send_frame       *)
(*     returns AVERROR_EOF once the encoder is draining);                  *)
(*   - a packet carries the presentation timestamp of its frame; the       *)
(*     codecs above emit packets in the order the frames were sent, a      *)
(*     "reordering" codec (B-frames: packets leave in decoding order) may  *)
(*     emit the second frame it holds before the first.                    *)
(* A pipeline is fed frames with timestamps ("timed") or frames without    *)
(* (RawFrame::pts() is None); the timed pipelines are the shorter ones    *)
(* and are explored without injected failures.                             *)
(***************************************************************************)
EXTENDS Integers, Sequences, FiniteSets, TLC

\* ------------------------------------------------------------- bounds
\* Frames sent to the codec, over the life of one pipeline.
MaxFrames == 13
\* The same for a codec that never reports being drained: it differs from
\* a conforming one only once it is draining, where each flush runs all of
\* MAX_DRAIN_ITERATIONS attempts.
MaxFramesUndrained == 2
\* Frames the codec may hold back before end-of-stream (its lag).
MaxLag == 2
\* The same for a pipeline whose frames carry timestamps.
MaxTimedFrames == 3
\* Failures the environment (codec, converter, writer) may inject.
MaxFaults == 1
\* The latest drain attempt / packet write of a flush at which a failure
\* may be injected.
MaxFaultPos == 1

\* ---------------------------------------------------- program constants
KEY_FRAME_INTERVAL == 12
MAX_DRAIN_ITERATIONS == 100
\* ffmpeg's global time base, the unit of the codec's timestamps.
TIME_BASE == [num |-> 1, den |-> 1000000]
encoder_time_base == TIME_BASE
\* No timestamp (Option::None, AV_NOPTS_VALUE in the packet).
NOPTS == -1

\* ------------------------------------------------------------- inputs
PixelFormats == {"RGB24", "BGRA", "YUV420P"}
Widths == {640, 800}
Heights == {480, 600}
\* RawFrame, as far as encode_raw looks at it.
Frame(w, h, fmt) == [width |-> w, height |-> h, format |-> fmt]
Frames ==
    {Frame(800, 600, "RGB24"), Frame(800, 600, "BGRA"),
     Frame(640, 600, "BGRA"), Frame(800, 480, "RGB24"),
     Frame(800, 600, "YUV420P"), Frame(640, 480, "BGRA")}
\* Settings: the dimensions the scaler is built for.
SettingsSet == {[width |-> 800, height |-> 600]}
CodecKinds == {"conforming", "stalling", "endless", "reordering"}
\* RawFrame::pts() of the frames of a timed pipeline, in encoder_time_base.
PtsValues == {0, 400, 33333}
\* The time base the container gives the output stream.
StreamTimeBases == {[num |-> 1, den |-> 1000], [num |-> 1, den |-> 15360]}

VARIABLES
    scaler_width, scaler_height, interleaved,       \* Encoder configuration
    frame_count, have_written_header, have_written_trailer,
    stream_time_base,                               \* the output stream's time base
    timed,                                          \* the caller's frames carry timestamps
    codecKind, buffered, draining,                  \* the codec (environment)
    queue,                                          \* timestamps of the frames the codec holds
    sentPts,                                        \* history: timestamps of the frames sent
    muxLog,                                         \* successful container writes
    written,                                        \* timestamps of the packets written
    dropped,                                        \* the Encoder was dropped
    anyAccepted, submitted,                         \* history: a frame passed validation / frames sent
    faults,                                         \* failures injected so far
    lastOp, result, ops                             \* the most recent call

vars == <<scaler_width, scaler_height, interleaved,
          frame_count, have_written_header, have_written_trailer,
          stream_time_base, timed,
          codecKind, buffered, draining, queue, sentPts, muxLog, written,
          dropped, anyAccepted, submitted, faults, lastOp, result, ops>>

\* One call into the codec, the converter or the writer, with its outcome.
Op(call, arg, res) == [call |-> call, arg |-> arg, res |-> res]

\* The part of the state a method works on, threaded through its steps.
Cur == [fc |-> frame_count, hdr |-> have_written_header,
        trl |-> have_written_trailer, buf |-> buffered, eof |-> draining,
        log |-> muxLog, sub |-> submitted, acc |-> anyAccepted,
        q |-> queue, sent |-> sentPts, wr |-> written,
        pts |-> NOPTS, fpts |-> NOPTS, pkt |-> NOPTS, pick |-> 1,
        ops |-> <<>>, ret |-> "Ok", brk |-> FALSE]

Log(s, call, arg, res) == [s EXCEPT !.ops = Append(@, Op(call, arg, res))]

\* Mutant: the height is not compared.
InvalidFrame_NoHeight(f) ==
    \/ f.width # scaler_width
    \/ (f.format # "RGB24" /\ f.format # "BGRA")

\* encode_raw's validation.
InvalidFrame(f) ==
    \/ f.width # scaler_width
    \/ f.height # scaler_height
    \/ (f.format # "RGB24" /\ f.format # "BGRA")

\* Mutant: the cadence follows the frames sent, not the packets written.
KeyFrame_BySubmitted(s) == s.sub % KEY_FRAME_INTERVAL = 0

\* The frame is marked as an intra frame before it is sent.
KeyFrame(s) == s.fc % KEY_FRAME_INTERVAL = 0

\* av_rescale_q: a * bq / cq, rounded to nearest, halves away from zero
\* (a >= 0 here).
RescaleQ(a, bq, cq) ==
    LET b == bq.num * cq.den
        c == cq.num * bq.den
    IN (a * b + c \div 2) \div c

\* Packet::rescale_ts: a timestamp that is set is rescaled.
RescaleTs(ts, bq, cq) == IF ts = NOPTS THEN NOPTS ELSE RescaleQ(ts, bq, cq)

\* Mutant: the packet is counted before the writer is called.
Write_CountsAttempt(s, ok) ==
    LET call == IF interleaved THEN "write_interleaved" ELSE "write"
        ts == RescaleTs(s.pkt, encoder_time_base, stream_time_base)
    IN IF ok
       THEN [Log(s, call, "-", "Ok") EXCEPT !.log = Append(@, "packet"),
                                            !.wr = Append(@, ts),
                                            !.fc = @ + 1]
       ELSE [Log(s, call, "-", "Err") EXCEPT !.ret = "BackendError",
                                             !.fc = @ + 1]

\* Mutant: the packet is written with the codec's timestamp.
Write_NoRescale(s, ok) ==
    LET call == IF interleaved THEN "write_interleaved" ELSE "write" IN
    IF ok
    THEN [Log(s, call, "-", "Ok") EXCEPT !.log = Append(@, "packet"),
                                         !.wr = Append(@, s.pkt),
                                         !.fc = @ + 1]
    ELSE [Log(s, call, "-", "Err") EXCEPT !.ret = "BackendError"]

\* Encoder::write: rescale the packet's timestamp to the stream's time
\* base, hand the packet to the writer, count it on success.
Write(s, ok) ==
    LET call == IF interleaved THEN "write_interleaved" ELSE "write"
        ts == RescaleTs(s.pkt, encoder_time_base, stream_time_base)
    IN IF ok
       THEN [Log(s, call, "-", "Ok") EXCEPT !.log = Append(@, "packet"),
                                            !.wr = Append(@, ts),
                                            !.fc = @ + 1]
       ELSE [Log(s, call, "-", "Err") EXCEPT !.ret = "BackendError"]

\* The codec's answers to a drain attempt (faults apart).
CodecAnswers(s) ==
    IF ~s.eof
    THEN (IF s.buf > 0 THEN {"Packet"} ELSE {})
         \cup (IF s.buf <= MaxLag THEN {"EAGAIN"} ELSE {})
    ELSE CASE codecKind \in {"conforming", "reordering"} ->
                  IF s.buf > 0 THEN {"Packet"} ELSE {"EOF"}
           [] codecKind = "stalling" -> {"EAGAIN"}
           [] OTHER -> {"Packet"}

\* The frame whose packet the codec emits next: the first it holds, or,
\* for a reordering codec that holds two, the one the environment picks.
Emitted(s) ==
    IF codecKind = "reordering" /\ s.pick <= Len(s.q) THEN s.pick ELSE 1

\* The codec after answering: a packet leaves its buffer, with the
\* timestamp of its frame.
Receive(s, answer) ==
    LET res == IF answer = "Packet" THEN "Ok" ELSE answer
        t == Log(s, "receive_packet", "-", res)
        p == Emitted(s)
    IN IF answer = "Packet"
       THEN [t EXCEPT !.buf = IF @ > 0 THEN @ - 1 ELSE 0,
                      !.pkt = IF s.q = <<>> THEN NOPTS ELSE s.q[p],
                      !.q = SubSeq(@, 1, p - 1) \o SubSeq(@, p + 1, Len(@))]
       ELSE t

\* Mutant: EAGAIN is not told apart from the other errors.
EncoderReceivePacket_EagainIsError(answer) ==
    CASE answer = "Packet" -> "Some"
      [] OTHER -> "Err"

\* Encoder::encoder_receive_packet: packet / no packet yet / failure.
EncoderReceivePacket(answer) ==
    CASE answer = "Packet" -> "Some"
      [] answer = "EAGAIN" -> "None"
      [] OTHER -> "Err"

\* Mutant: the header is written on every call, the flag is not consulted.
LazyHeader_Always(s, ok) ==
    IF ok
    THEN [Log(s, "write_header", "-", "Ok")
             EXCEPT !.hdr = TRUE, !.log = Append(@, "header")]
    ELSE [Log(s, "write_header", "-", "Err") EXCEPT !.ret = "BackendError"]

\* Mutant: have_written_header is set before the writer is called.
LazyHeader_FlagFirst(s, ok) ==
    IF ~s.hdr
    THEN IF ok
         THEN [Log(s, "write_header", "-", "Ok")
                  EXCEPT !.hdr = TRUE, !.log = Append(@, "header")]
         ELSE [Log(s, "write_header", "-", "Err")
                  EXCEPT !.hdr = TRUE, !.ret = "BackendError"]
    ELSE s

\* encode_raw: the file header is written if it was not yet.
LazyHeader(s, ok) ==
    IF ~s.hdr
    THEN IF ok
         THEN [Log(s, "write_header", "-", "Ok")
                  EXCEPT !.hdr = TRUE, !.log = Append(@, "header")]
         ELSE [Log(s, "write_header", "-", "Err") EXCEPT !.ret = "BackendError"]
    ELSE s

\* Encoder::scale: the converter runs on the frame, the converted frame
\* gets the PTS of the frame.
Scale(s, ok) ==
    IF ok THEN [Log(s, "scale", "-", "Ok") EXCEPT !.fpts = s.pts]
    ELSE [Log(s, "scale", "-", "Err") EXCEPT !.ret = "BackendError"]

\* encode_raw: the frame, marked or not, is sent to the codec, which
\* refuses it once it is draining.
SendFrame(s, ok) ==
    LET kind == IF KeyFrame(s) THEN "I" ELSE "-" IN
    IF s.eof
    THEN [Log(s, "send_frame", kind, "EOF") EXCEPT !.ret = "BackendError"]
    ELSE IF ok
    THEN [Log(s, "send_frame", kind, "Ok")
             EXCEPT !.buf = @ + 1, !.sub = @ + 1,
                    !.q = Append(@, s.fpts), !.sent = Append(@, s.pts)]
    ELSE [Log(s, "send_frame", kind, "Err") EXCEPT !.ret = "BackendError"]

\* Mutant: after a packet, a second one is drained if the codec holds one.
DrainOne_Twice(s, answer, writeOk) ==
    LET t == Receive(s, answer)
        got == EncoderReceivePacket(answer)
        w == Write(t, writeOk)
    IN CASE got = "Some" ->
                IF w.ret = "Ok" /\ w.buf > 0
                THEN Write(Receive(w, "Packet"), TRUE)
                ELSE w
         [] got = "None" -> t
         [] OTHER -> [t EXCEPT !.ret = "BackendError"]

\* encode_raw: one drain attempt; a packet, if any, is written.
DrainOne(s, answer, writeOk) ==
    LET t == Receive(s, answer)
        got == EncoderReceivePacket(answer)
    IN CASE got = "Some" -> Write(t, writeOk)
         [] got = "None" -> t
         [] OTHER -> [t EXCEPT !.ret = "BackendError"]

\* encode_raw from the conversion on.
AfterHeader(s, env) ==
    LET s2 == Scale(s, env.scaleOk)
        s3 == SendFrame(s2, env.sendOk)
    IN IF s2.ret # "Ok" THEN s2
       ELSE IF s3.ret # "Ok" THEN s3
       ELSE DrainOne(s3, env.answer, env.writeOk)

\* Encoder::encode_raw for a frame that passed validation.
EncodeAccepted(s, env) ==
    LET s1 == LazyHeader([s EXCEPT !.acc = TRUE], env.hdrOk) IN
    IF s1.ret # "Ok" THEN s1 ELSE AfterHeader(s1, env)

\* Mutant: the frame is validated after the lazy header write.
EncodeRawBody_ValidateLate(s, f, env) ==
    LET s1 == LazyHeader(s, env.hdrOk) IN
    IF s1.ret # "Ok" THEN s1
    ELSE IF InvalidFrame(f) THEN [s1 EXCEPT !.ret = "InvalidFrameFormat"]
    ELSE AfterHeader([s1 EXCEPT !.acc = TRUE], env)

\* Encoder::encode_raw, the environment answering env.
EncodeRawBody(s, f, env) ==
    IF InvalidFrame(f)
    THEN [s EXCEPT !.ret = "InvalidFrameFormat"]
    ELSE EncodeAccepted(s, env)

\* The environment of one encode_raw call: every call succeeds and the codec
\* answers a packet, or exactly one call deviates (the method returns at
\* its first failure, so one deviation per call covers its outcomes).
OkEnv == [hdrOk |-> TRUE, scaleOk |-> TRUE, sendOk |-> TRUE,
          answer |-> "Packet", writeOk |-> TRUE, pick |-> 1]
EncodeEnvs ==
    {OkEnv,
     [OkEnv EXCEPT !.hdrOk = FALSE],
     [OkEnv EXCEPT !.scaleOk = FALSE],
     [OkEnv EXCEPT !.sendOk = FALSE],
     [OkEnv EXCEPT !.answer = "EAGAIN"],
     [OkEnv EXCEPT !.answer = "Error"],
     [OkEnv EXCEPT !.writeOk = FALSE],
     [OkEnv EXCEPT !.pick = 2]}

\* The failures an environment holds in store for one call.
B2N(b) == IF b THEN 1 ELSE 0
EncodePlanned(env) ==
    B2N(~env.hdrOk) + B2N(~env.scaleOk) + B2N(~env.sendOk)
    + B2N(env.answer = "Error") + B2N(~env.writeOk)
FinishPlanned(env) ==
    B2N(~env.eofOk) + B2N(env.errAt # -1) + B2N(env.writeFailAt # -1)
    + B2N(~env.trailerOk)

\* The injected failures among the calls of one method; the codec's EOF and
\* EAGAIN answers are no failures.
FaultCount(o) == Cardinality({i \in 1..Len(o) : o[i].res \in {"Err", "Error"}})

\* Mutant: the loop is left after the first packet it writes.
FlushStep_StopAfterPacket(i, s, env) ==
    LET answer == IF env.errAt = i THEN "Error"
                  ELSE CHOOSE a \in CodecAnswers(s) : TRUE
        t == Receive(s, answer)
        got == EncoderReceivePacket(answer)
    IN CASE got = "Some" -> [Write(t, env.writeFailAt # i) EXCEPT !.brk = TRUE]
         [] got = "None" -> t
         [] OTHER -> [t EXCEPT !.brk = TRUE]

\* Mutant: a hard error is treated like "no packet yet", the loop goes on.
FlushStep_ErrorContinues(i, s, env) ==
    LET answer == IF env.errAt = i THEN "Error"
                  ELSE CHOOSE a \in CodecAnswers(s) : TRUE
        t == Receive(s, answer)
        got == EncoderReceivePacket(answer)
    IN CASE got = "Some" ->
                LET w == Write(t, env.writeFailAt # i) IN
                IF w.ret # "Ok" THEN [w EXCEPT !.brk = TRUE] ELSE w
         [] OTHER -> t

\* One pass of flush's drain loop, attempt i: a packet is written (a failed
\* write returns from flush), "no packet yet" continues, an error breaks.
FlushStep(i, s, env) ==
    LET answer == IF env.errAt = i THEN "Error"
                  ELSE CHOOSE a \in CodecAnswers(s) : TRUE
        t == Receive(s, answer)
        got == EncoderReceivePacket(answer)
    IN CASE got = "Some" ->
                LET w == Write(t, env.writeFailAt # i) IN
                IF w.ret # "Ok" THEN [w EXCEPT !.brk = TRUE] ELSE w
         [] got = "None" -> t
         [] OTHER -> [t EXCEPT !.brk = TRUE]

\* The passes lo .. hi-1 of the loop, in order, until one leaves the loop
\* (the range is halved to keep the evaluation shallow).
RECURSIVE FlushRange(_, _, _, _)
FlushRange(lo, hi, s, env) ==
    IF s.brk \/ lo >= hi THEN s
    ELSE IF hi = lo + 1 THEN FlushStep(lo, s, env)
    ELSE LET mid == (lo + hi) \div 2 IN
         FlushRange(mid, hi, FlushRange(lo, mid, s, env), env)

\* Mutant: an inclusive range, one attempt too many.
FlushLoop_Inclusive(s, env) == FlushRange(0, MAX_DRAIN_ITERATIONS + 1, s, env)

\* for _ in 0..MAX_DRAIN_ITERATIONS
FlushLoop(s, env) == FlushRange(0, MAX_DRAIN_ITERATIONS, s, env)

\* Encoder::flush: end-of-stream signal, then the bounded drain.
Flush(s, env) ==
    IF env.eofOk
    THEN FlushLoop([Log(s, "send_eof", "-", "Ok") EXCEPT !.eof = TRUE], env)
    ELSE [Log(s, "send_eof", "-", "Err") EXCEPT !.ret = "BackendError"]

\* Mutant: finish does not consult have_written_header.
FinishBody_IgnoresHeader(s, env) ==
    IF ~s.trl
    THEN LET s1 == [s EXCEPT !.trl = TRUE]
             s2 == Flush(s1, env)
         IN IF s2.ret # "Ok" THEN s2
            ELSE IF env.trailerOk
            THEN [Log(s2, "write_trailer", "-", "Ok")
                     EXCEPT !.log = Append(@, "trailer")]
            ELSE [Log(s2, "write_trailer", "-", "Err")
                     EXCEPT !.ret = "BackendError"]
    ELSE s

\* Mutant: finish does not consult have_written_trailer.
FinishBody_IgnoresTrailer(s, env) ==
    IF s.hdr
    THEN LET s1 == [s EXCEPT !.trl = TRUE]
             s2 == Flush(s1, env)
         IN IF s2.ret # "Ok" THEN s2
            ELSE IF env.trailerOk
            THEN [Log(s2, "write_trailer", "-", "Ok")
                     EXCEPT !.log = Append(@, "trailer")]
            ELSE [Log(s2, "write_trailer", "-", "Err")
                     EXCEPT !.ret = "BackendError"]
    ELSE s

\* Mutant: have_written_trailer is set only once the trailer is written.
FinishBody_FlagAfterTrailer(s, env) ==
    IF s.hdr /\ ~s.trl
    THEN LET s2 == Flush(s, env)
         IN IF s2.ret # "Ok" THEN s2
            ELSE IF env.trailerOk
            THEN [Log(s2, "write_trailer", "-", "Ok")
                     EXCEPT !.log = Append(@, "trailer"), !.trl = TRUE]
            ELSE [Log(s2, "write_trailer", "-", "Err")
                     EXCEPT !.ret = "BackendError"]
    ELSE s

\* Mutant: a finished pipeline is reset for reuse, have_written_header is
\* cleared once the trailer is written.
FinishBody_ResetsHeader(s, env) ==
    IF s.hdr /\ ~s.trl
    THEN LET s1 == [s EXCEPT !.trl = TRUE]
             s2 == Flush(s1, env)
         IN IF s2.ret # "Ok" THEN s2
            ELSE IF env.trailerOk
            THEN [Log(s2, "write_trailer", "-", "Ok")
                     EXCEPT !.log = Append(@, "trailer"), !.hdr = FALSE]
            ELSE [Log(s2, "write_trailer", "-", "Err")
                     EXCEPT !.ret = "BackendError"]
    ELSE s

\* Mutant: have_written_trailer is set once the flush has succeeded.
FinishBody_FlagAfterFlush(s, env) ==
    IF s.hdr /\ ~s.trl
    THEN LET s2 == Flush(s, env)
         IN IF s2.ret # "Ok" THEN s2
            ELSE IF env.trailerOk
            THEN [Log(s2, "write_trailer", "-", "Ok")
                     EXCEPT !.log = Append(@, "trailer"), !.trl = TRUE]
            ELSE [Log(s2, "write_trailer", "-", "Err")
                     EXCEPT !.ret = "BackendError", !.trl = TRUE]
    ELSE s

\* Encoder::finish.
FinishBody(s, env) ==
    IF s.hdr /\ ~s.trl
    THEN LET s1 == [s EXCEPT !.trl = TRUE]
             s2 == Flush(s1, env)
         IN IF s2.ret # "Ok" THEN s2
            ELSE IF env.trailerOk
            THEN [Log(s2, "write_trailer", "-", "Ok")
                     EXCEPT !.log = Append(@, "trailer")]
            ELSE [Log(s2, "write_trailer", "-", "Err")
                     EXCEPT !.ret = "BackendError"]
    ELSE s

\* Mutant: the drop-time call finalizes whatever have_written_trailer says.
DropBody_IgnoresTrailer(s, env) ==
    [FinishBody_IgnoresTrailer(s, env) EXCEPT !.ret = "Ok"]

\* impl Drop: `let _ = self.finish()`, the result is discarded.
DropBody(s, env) == [FinishBody(s, env) EXCEPT !.ret = "Ok"]

\* The environment of one finish call: drain attempt errAt answers a hard
\* error, the packet write of attempt writeFailAt fails (-1: none).
FaultAts == {-1} \cup 0..(MaxFaultPos - 1)
FinishEnvs ==
    [eofOk : {TRUE}, errAt : FaultAts, writeFailAt : {-1}, trailerOk : BOOLEAN,
     pick : {1}]
    \cup [eofOk : {TRUE}, errAt : {-1}, writeFailAt : FaultAts, trailerOk : {TRUE},
           pick : {1}]
    \cup [eofOk : {FALSE}, errAt : {-1}, writeFailAt : {-1}, trailerOk : {TRUE},
           pick : {1}]
    \cup [eofOk : {TRUE}, errAt : {-1}, writeFailAt : {-1}, trailerOk : {TRUE},
           pick : {2}]

\* The frames a codec holding n frames may be told to emit first.
Picks(n) == IF codecKind = "reordering" /\ n >= 2 THEN {1, 2} ELSE {1}

\* The failures the environment may inject into one pipeline (the model's
\* bound; the timed pipelines are explored without failures).
FaultBound == IF timed THEN 0 ELSE MaxFaults

\* The timestamps the caller may put on a frame.
PtsChoices == IF timed THEN PtsValues ELSE {NOPTS}

\* The frames one pipeline may send (the model's bound).
FrameBound ==
    IF timed THEN MaxTimedFrames
    ELSE IF codecKind = "conforming" THEN MaxFrames ELSE MaxFramesUndrained

Commit(s) ==
    /\ result' = s.ret
    /\ ops' = s.ops
    /\ frame_count' = s.fc
    /\ have_written_header' = s.hdr
    /\ have_written_trailer' = s.trl
    /\ buffered' = s.buf
    /\ draining' = s.eof
    /\ muxLog' = s.log
    /\ queue' = s.q
    /\ sentPts' = s.sent
    /\ written' = s.wr
    /\ submitted' = s.sub
    /\ anyAccepted' = s.acc
    /\ faults' = faults + FaultCount(s.ops)
    /\ UNCHANGED <<scaler_width, scaler_height, interleaved, codecKind,
                    stream_time_base, timed>>

Init ==
    /\ \E st \in SettingsSet :
          /\ scaler_width = st.width
          /\ scaler_height = st.height
    /\ interleaved \in BOOLEAN
    /\ frame_count = 0
    /\ have_written_header = FALSE
    /\ have_written_trailer = FALSE
    /\ timed \in BOOLEAN
    /\ stream_time_base \in StreamTimeBases
    /\ codecKind \in CodecKinds
    /\ (codecKind = "reordering" => timed)
    /\ (timed => codecKind \in {"conforming", "reordering"})
    /\ (~timed => stream_time_base.den = 1000)
    /\ buffered = 0
    /\ draining = FALSE
    /\ queue = <<>>
    /\ sentPts = <<>>
    /\ muxLog = <<>>
    /\ written = <<>>
    /\ dropped = FALSE
    /\ anyAccepted = FALSE
    /\ submitted = 0
    /\ faults = 0
    /\ lastOp = "none"
    /\ result = "Ok"
    /\ ops = <<>>

EncodeRaw(f) ==
    /\ ~dropped
    /\ submitted < FrameBound
    /\ lastOp' = "encode_raw"
    /\ UNCHANGED dropped
    /\ \E env \in EncodeEnvs, pts \in PtsChoices :
          /\ faults + EncodePlanned(env) <= FaultBound
          /\ env.answer \in CodecAnswers([Cur EXCEPT !.buf = @ + 1]) \cup {"Error"}
          /\ env.pick \in Picks(buffered + 1)
          /\ Commit(EncodeRawBody([Cur EXCEPT !.pts = pts, !.pick = env.pick],
                                  f, env))

Finish ==
    /\ ~dropped
    /\ lastOp' = "finish"
    /\ UNCHANGED dropped
    /\ \E env \in FinishEnvs :
          /\ faults + FinishPlanned(env) <= FaultBound
          /\ env.pick \in Picks(buffered)
          /\ Commit(FinishBody([Cur EXCEPT !.pick = env.pick], env))

\* The Encoder is dropped: it is gone afterwards.
Drop ==
    /\ ~dropped
    /\ lastOp' = "drop"
    /\ dropped' = TRUE
    /\ \E env \in FinishEnvs :
          /\ faults + FinishPlanned(env) <= FaultBound
          /\ env.pick \in Picks(buffered)
          /\ Commit(DropBody([Cur EXCEPT !.pick = env.pick], env))

Next ==
    \/ \E f \in Frames : EncodeRaw(f)
    \/ Finish
    \/ Drop

Spec == Init /\ [][Next]_vars

\* ------------------------------------------------------------- claims
\* How often x was written to the container.
Count(log, x) == Cardinality({i \in 1..Len(log) : log[i] = x})
\* The calls of the most recent method to one backend function.
Calls(call) == {i \in 1..Len(ops) : ops[i].call = call}
CallsWith(call, res) == {i \in Calls(call) : ops[i].res = res}
PacketsWritten == Count(muxLog, "packet")

\* C1: over any sequence of calls the header is written at most once; it is
\* the first thing written, so it precedes every packet; it is written
\* exactly once as soon as a frame reached the codec or a packet was
\* written; and it is never written on a pipeline that accepted no frame.
C1_HeaderOnceBeforePackets ==
    /\ Count(muxLog, "header") <= 1
    /\ (muxLog # <<>> => muxLog[1] = "header")
    /\ (submitted > 0 \/ PacketsWritten > 0 => Count(muxLog, "header") = 1)
    /\ (~anyAccepted => Count(muxLog, "header") = 0)
    /\ (have_written_header <=> Count(muxLog, "header") = 1)

\* A second accepted frame was sent and packets were written after the header.
C1_Witness ==
    /\ lastOp = "encode_raw"
    /\ submitted >= 2
    /\ PacketsWritten >= 2
    /\ Calls("write_header") = {}

pipeline == <<frame_count, have_written_header, have_written_trailer,
              buffered, draining, muxLog, submitted>>

\* C3: encode_raw returns InvalidFrameFormat exactly for the frames whose
\* width or height differs from the scaler's or whose pixel format is
\* neither RGB24 nor BGRA; a well-formed frame never gets that error.
\* (Every step is either no encode_raw(f) step or ends with the result the
\* claim gives for f.)
C3_InvalidFrameFormatIff ==
    [][\A f \in Frames :
          \/ ((result' = "InvalidFrameFormat") <=>
                  (\/ f.width # scaler_width
                   \/ f.height # scaler_height
                   \/ f.format \notin {"RGB24", "BGRA"}))
          \/ ~EncodeRaw(f)]_vars

\* A frame was rejected by a pipeline that had already taken frames.
C3_Witness ==
    /\ lastOp = "encode_raw"
    /\ result = "InvalidFrameFormat"
    /\ submitted >= 1

\* C4: a rejected frame causes no call into the writer, the converter or
\* the codec, and leaves the counter, both flags, the codec's buffer and
\* the container as they were.
C4_RejectionHasNoEffect ==
    [][(lastOp' = "encode_raw" /\ result' = "InvalidFrameFormat") =>
          (ops' = <<>> /\ UNCHANGED pipeline)]_vars

\* A frame was rejected while the codec held frames back, before and after
\* the header.
C4_Witness ==
    /\ lastOp = "encode_raw"
    /\ result = "InvalidFrameFormat"
    /\ ops = <<>>
    /\ have_written_header
    /\ buffered >= 1
    /\ frame_count >= 1

\* C5: a finish() that directly follows a finish() makes no call into the
\* codec or the writer, returns success and changes nothing, so two calls
\* leave the output and the state of one.
C5_SecondFinishIsNoOp ==
    [][(lastOp = "finish" /\ Finish) =>
          (ops' = <<>> /\ result' = "Ok" /\ UNCHANGED pipeline)]_vars

\* finish() was called on a pipeline whose trailer is written: it did nothing.
C5_Witness ==
    /\ lastOp = "finish"
    /\ ops = <<>>
    /\ result = "Ok"
    /\ have_written_trailer
    /\ Count(muxLog, "trailer") = 1

\* The packets the most recent method wrote, and drained from the codec.
WritesOk == CallsWith("write", "Ok") \cup CallsWith("write_interleaved", "Ok")
DrainedOk == CallsWith("receive_packet", "Ok")

C7_EveryTwelfthSubmittedIsKey ==
    (/\ lastOp = "encode_raw"
     /\ faults = 0
     /\ CallsWith("send_frame", "Ok") # {}
     /\ (submitted - 1) % KEY_FRAME_INTERVAL = 0)
        => \A i \in Calls("send_frame") : ops[i].arg = "I"

\* C8: a frame handed to the codec is marked as a key frame exactly when
\* the packets written before its call number 0, 12, 24, ...
C8_KeyIffCounterMultiple ==
    (lastOp = "encode_raw" /\ Calls("send_frame") # {})
        => \A i \in Calls("send_frame") :
              (ops[i].arg = "I") <=>
                  ((PacketsWritten - Cardinality(WritesOk)) % KEY_FRAME_INTERVAL = 0)

\* A frame was marked with twelve packets written before it.
C8_Witness ==
    /\ lastOp = "encode_raw"
    /\ \E i \in Calls("send_frame") : ops[i].arg = "I"
    /\ PacketsWritten - Cardinality(WritesOk) = KEY_FRAME_INTERVAL

\* C9: finish() makes at most MAX_DRAIN_ITERATIONS drain attempts; with a
\* codec that never reports being drained (and no failing call) it makes
\* exactly that many, then writes the trailer and returns success.
C9_BoundedFlush ==
    lastOp = "finish" =>
        /\ Cardinality(Calls("receive_packet")) <= MAX_DRAIN_ITERATIONS
        /\ (/\ codecKind \in {"stalling", "endless"}
            /\ Calls("send_eof") # {}
            /\ FaultCount(ops) = 0)
               => /\ Cardinality(Calls("receive_packet")) = MAX_DRAIN_ITERATIONS
                  /\ ops[Len(ops)] = Op("write_trailer", "-", "Ok")
                  /\ muxLog[Len(muxLog)] = "trailer"
                  /\ result = "Ok"

\* finish() gave up on a codec that kept answering, and wrote the trailer.
C9_Witness ==
    /\ lastOp = "finish"
    /\ codecKind \in {"stalling", "endless"}
    /\ Cardinality(Calls("receive_packet")) = MAX_DRAIN_ITERATIONS
    /\ Count(muxLog, "trailer") = 1

\* C10: finish() on a pipeline whose header is not written calls neither
\* the codec nor the writer (no end-of-stream signal, no packet, no
\* trailer), sets no flag and returns success.
C10_FinishWithoutHeader ==
    (lastOp = "finish" /\ ~have_written_header)
        => /\ ops = <<>>
           /\ result = "Ok"
           /\ muxLog = <<>>
           /\ ~have_written_trailer
           /\ ~draining

\* finish() was called before any frame was accepted.
C10_Witness ==
    /\ lastOp = "finish"
    /\ ~have_written_header
    /\ ~anyAccepted

C12_FlagLifecycle ==
    [][/\ (have_written_trailer => have_written_header)
       /\ (have_written_trailer' => have_written_header')
       /\ (have_written_header => have_written_header')
       /\ (have_written_trailer => have_written_trailer')
       /\ Count(muxLog, "header") <= 1
       /\ Count(muxLog', "header") <= 1
       /\ Count(muxLog, "trailer") <= 1
       /\ Count(muxLog', "trailer") <= 1]_vars

\* Both flags are set, the trailer is written, and another frame was
\* handed to encode_raw after that.
C12_Witness ==
    /\ have_written_header
    /\ have_written_trailer
    /\ Count(muxLog, "trailer") = 1
    /\ lastOp = "encode_raw"
    /\ ops # <<>>

\* C13: frame_count is the number of packets in the container, before and
\* after every step (0 at the start); a step never lowers it and raises it
\* by exactly the number of packet writes of the method that succeeded, so
\* a frame sent, a drain without a packet and a failed write leave it alone.
C13_FrameCountIsPacketsWritten ==
    [][/\ frame_count = PacketsWritten
       /\ frame_count' = PacketsWritten'
       /\ frame_count' >= frame_count
       /\ frame_count' - frame_count =
             Cardinality({i \in 1..Len(ops') :
                 /\ ops'[i].call \in {"write", "write_interleaved"}
                 /\ ops'[i].res = "Ok"})
       /\ (frame_count = 0 \/ lastOp # "none")]_vars

\* Packets were counted, and the most recent encode_raw sent a frame but
\* its packet write failed: the counter stayed.
C13_Witness ==
    /\ lastOp = "encode_raw"
    /\ CallsWith("send_frame", "Ok") # {}
    /\ CallsWith("write", "Err") \cup CallsWith("write_interleaved", "Err") # {}
    /\ frame_count >= 2
    /\ frame_count = PacketsWritten

\* The timestamps of a sequence never fall.
NonDecreasing(seq) == \A i \in 1..(Len(seq) - 1) : seq[i] <= seq[i + 1]
\* The timestamps of the frames sent, in the output stream's time base.
SentRescaled ==
    {RescaleQ(sentPts[i], encoder_time_base, stream_time_base) :
        i \in 1..Len(sentPts)}

C15_OneDrainPerEncodeRaw ==
    [][lastOp' = "encode_raw" =>
          LET sent == {i \in 1..Len(ops') :
                          ops'[i].call = "send_frame" /\ ops'[i].res = "Ok"}
              drains == {i \in 1..Len(ops') : ops'[i].call = "receive_packet"}
              drained == {i \in drains : ops'[i].res = "Ok"}
              writes == {i \in 1..Len(ops') :
                            ops'[i].call \in {"write", "write_interleaved"}}
          IN /\ Cardinality(drains) = Cardinality(sent)
             /\ Cardinality(sent) <= 1
             /\ Cardinality(writes) = Cardinality(drained)
             /\ Len(muxLog') - Len(muxLog) <= 1 + Cardinality(
                    {i \in 1..Len(ops') : ops'[i].call = "write_header"})
             /\ frame_count' - frame_count <= 1
             /\ buffered' = buffered + Cardinality(sent) - Cardinality(drained)]_vars

\* encode_raw wrote one packet and left two frames in the codec, which
\* had held three.
C15_Witness ==
    /\ lastOp = "encode_raw"
    /\ Cardinality(WritesOk) = 1
    /\ Cardinality(Calls("receive_packet")) = 1
    /\ buffered >= 2
    /\ ~draining

\* C16: the drain attempt of an encode_raw call has one of three outcomes.
\* EAGAIN: the call returns success, the writer is not called for a packet,
\* frame_count and the packets in the container stay.  Any other error:
\* the call returns that error, and again nothing is written or counted.
\* A packet: the writer is called for it, and the call returns success
\* exactly when the write succeeded.
C16_DrainOutcomes ==
    [][lastOp' = "encode_raw" =>
          LET res == {ops'[i].res : i \in {j \in 1..Len(ops') :
                                          ops'[j].call = "receive_packet"}}
              writes == {i \in 1..Len(ops') :
                            ops'[i].call \in {"write", "write_interleaved"}}
              same == /\ frame_count' = frame_count
                      /\ PacketsWritten' = PacketsWritten
                      /\ written' = written
          IN /\ ("EAGAIN" \in res => (result' = "Ok" /\ writes = {} /\ same))
             /\ (res \cap {"Error", "EOF"} # {} =>
                    (result' = "BackendError" /\ writes = {} /\ same))
             /\ ("Ok" \in res =>
                    /\ Cardinality(writes) = 1
                    /\ (result' = "Ok" <=> ops'[Len(ops')].res = "Ok")
                    /\ (result' = "Ok" => frame_count' = frame_count + 1))]_vars

\* The codec held the frame back: encode_raw returned success, wrote
\* nothing, and packets written earlier are still the count.
C16_Witness ==
    /\ lastOp = "encode_raw"
    /\ CallsWith("receive_packet", "EAGAIN") # {}
    /\ result = "Ok"
    /\ WritesOk = {}
    /\ frame_count >= 1
    /\ buffered >= 1

\* The drain attempts of the most recent method, in call order.
Drains == Calls("receive_packet")

\* C17: in the flush of finish(), an EAGAIN answer is followed by the next
\* drain attempt as long as fewer than MAX_DRAIN_ITERATIONS were made; the
\* first hard error or end-of-stream answer is the last drain attempt and
\* is followed at once by the trailer write, whose success makes finish()
\* return success with the trailer in the container, whatever the codec
\* still held.
C17_FlushStopsAtHardError ==
    lastOp = "finish" =>
        \A i \in Drains :
            /\ (ops[i].res = "EAGAIN" /\
                Cardinality({j \in Drains : j <= i}) < MAX_DRAIN_ITERATIONS)
                   => (Len(ops) > i /\ ops[i + 1].call = "receive_packet")
            /\ (ops[i].res \in {"Error", "EOF"})
                   => /\ \A j \in Drains : j <= i
                      /\ Len(ops) = i + 1
                      /\ ops[i + 1].call = "write_trailer"
                      /\ (ops[i + 1].res = "Ok" =>
                             /\ result = "Ok"
                             /\ muxLog[Len(muxLog)] = "trailer"
                             /\ have_written_trailer)

\* The first drain attempt of a flush failed hard while the codec held
\* frames: no further attempt was made, the packets were abandoned, the
\* trailer was written and finish() returned success.
C17_Witness ==
    /\ lastOp = "finish"
    /\ CallsWith("receive_packet", "Error") # {}
    /\ Cardinality(Drains) = 1
    /\ buffered >= 1
    /\ PacketsWritten < submitted
    /\ Count(muxLog, "trailer") = 1
    /\ result = "Ok"

\* C18: a finish() or drop calls the codec or the writer only in the step
\* that sets have_written_trailer, so the finalization is attempted at most
\* once.  A finish() that returned an error has set the flag and written
\* no trailer; from then on (the flag set, no trailer in the container)
\* every finish() and the drop make no call, return success and change
\* nothing, so the trailer is never written.
C18_FinalizationAttemptedOnce ==
    [][lastOp' \in {"finish", "drop"} =>
          /\ (ops' # <<>> => (~have_written_trailer /\ have_written_trailer'))
          /\ (result' = "BackendError" =>
                 /\ have_written_trailer'
                 /\ Count(muxLog', "trailer") = 0)
          /\ (have_written_trailer /\ Count(muxLog, "trailer") = 0)
                 => /\ ops' = <<>>
                    /\ result' = "Ok"
                    /\ UNCHANGED pipeline
                    /\ Count(muxLog', "trailer") = 0]_vars

\* Something was called after a finish() had failed: the pipeline has the
\* flag set and no trailer, and the most recent finish() did nothing.
C18_Witness ==
    /\ lastOp = "finish"
    /\ ops = <<>>
    /\ result = "Ok"
    /\ faults >= 1
    /\ have_written_trailer
    /\ Count(muxLog, "trailer") = 0

\* C19 as stated: once have_written_trailer is set, an encode_raw call
\* writes neither a header nor a packet to the container and leaves
\* frame_count as it was.
C19_NoWriteAfterFinish ==
    [][(have_written_trailer /\ lastOp' = "encode_raw") =>
          (muxLog' = muxLog /\ frame_count' = frame_count)]_vars

\* C20: an encode_raw call whose header write fails makes no other call
\* (converter and codec are not reached), returns the error and leaves
\* have_written_header unset, the codec and the container as they were.
\* While the flag is unset every encode_raw call with a well-formed frame
\* starts with the header write, and a finish() makes no call and writes
\* nothing.
C20_FailedHeaderWrite ==
    [][/\ (lastOp' = "encode_raw" /\ ops' # <<>> /\ ops'[1].res = "Err"
              /\ ops'[1].call = "write_header")
             => /\ Len(ops') = 1
                /\ result' = "BackendError"
                /\ ~have_written_header'
                /\ UNCHANGED pipeline
                /\ UNCHANGED <<queue, sentPts, written>>
       /\ (~have_written_header /\ lastOp' = "encode_raw"
              /\ result' # "InvalidFrameFormat")
             => (ops' # <<>> /\ ops'[1].call = "write_header")
       /\ (~have_written_header /\ lastOp' = "finish")
             => (ops' = <<>> /\ UNCHANGED pipeline /\ muxLog' = <<>>)]_vars

\* A header write had failed; a later encode_raw call wrote the header and
\* sent its frame.
C20_Witness ==
    /\ lastOp = "encode_raw"
    /\ CallsWith("write_header", "Ok") # {}
    /\ CallsWith("send_frame", "Ok") # {}
    /\ faults - FaultCount(ops) >= 1
    /\ Count(muxLog, "header") = 1
====
